---- MODULE Spec2Model ----
(***************************************************************************)
(* Model of server.js: an Express service mapping HTTP verbs on /orders    *)
(* (and two read-only listings) to single SQL statements run through a     *)
(* pooled MariaDB connection.                                              *)
(*                                                                         *)
(* Strings are sequences of one-character strings.  Requests in flight are *)
(* kept in a bag: two requests with the same content at the same position  *)
(* are interchangeable.                                                    *)
(***************************************************************************)
EXTENDS Bags, FiniteSets, Integers, Sequences, TLC

\* ------------------------------------------------------------------ bounds
\* Number of requests that may be in flight at once under Spec.
MaxInFlight == 2
\* Number of requests that may be in flight at once under PoolSpec.
PoolClients == 6
\* Number of requests that may be in flight at once under LiveSpec.
LiveClients == 1

\* --------------------------------------------------------- program constants
connectionLimit == 5

\* An absent JSON field (JavaScript undefined).
Absent == [t |-> "undefined", n |-> 0, tenths |-> 0, s |-> <<>>]

\* ---------------------------------------------------------------- strings
Digits == <<"0", "1", "2", "3", "4", "5", "6", "7", "8", "9">>

DigitChars == {Digits[i] : i \in 1..10}

DigitVal(c) == (CHOOSE i \in 1..10 : Digits[i] = c) - 1

RECURSIVE NatToStr(_)
NatToStr(n) == IF n < 10 THEN <<Digits[n + 1]>>
               ELSE NatToStr(n \div 10) \o <<Digits[(n % 10) + 1]>>

RECURSIVE StrToNat(_)
StrToNat(s) == IF s = <<>> THEN 0
               ELSE 10 * StrToNat(SubSeq(s, 1, Len(s) - 1)) + DigitVal(s[Len(s)])

\* A JSON number n + tenths/10 (tenths = 0 for an integer), or a JSON string.
Num(n, tenths) == [t |-> "num", n |-> n, tenths |-> tenths, s |-> <<>>]

Str(s) == [t |-> "str", n |-> 0, tenths |-> 0, s |-> s]

\* express-validator turns every field value into a string before a
\* validator or sanitizer sees it; undefined becomes the empty string.
toString(v) ==
  IF v.t = "undefined" THEN <<>>
  ELSE IF v.t = "str" THEN v.s
  ELSE (IF v.n < 0 THEN <<"-">> ELSE <<>>)
       \o NatToStr(IF v.n < 0 THEN -v.n ELSE v.n)
       \o (IF v.tenths = 0 THEN <<>> ELSE <<".", Digits[v.tenths + 1]>>)

Whitespace == {" "}

RECURSIVE ltrim(_)
ltrim(s) == IF s # <<>> /\ Head(s) \in Whitespace THEN ltrim(Tail(s)) ELSE s

RECURSIVE rtrim(_)
rtrim(s) == IF s # <<>> /\ s[Len(s)] \in Whitespace
            THEN rtrim(SubSeq(s, 1, Len(s) - 1)) ELSE s

trim(s) == rtrim(ltrim(s))

EscapeChar(c) ==
  CASE c = "&" -> <<"&", "a", "m", "p", ";">>
    [] c = "<" -> <<"&", "l", "t", ";">>
    [] c = ">" -> <<"&", "g", "t", ";">>
    [] OTHER -> <<c>>

RECURSIVE escape(_)
escape(s) == IF s = <<>> THEN <<>> ELSE EscapeChar(Head(s)) \o escape(Tail(s))

isLength(s, min) == Len(s) >= min

\* validator.js isInt: ^[-+]?(0|[1-9][0-9]*)$; with {min}, the value is >= min.
HasSign(s) == s # <<>> /\ Head(s) \in {"-", "+"}

Unsigned(s) == IF HasSign(s) THEN Tail(s) ELSE s

IntSyntax(s) ==
  LET u == Unsigned(s)
  IN /\ u # <<>>
     /\ \A i \in 1..Len(u) : u[i] \in DigitChars
     /\ (Len(u) > 1 => u[1] # "0")

IntValue(s) == IF s # <<>> /\ Head(s) = "-" THEN -StrToNat(Unsigned(s))
               ELSE StrToNat(Unsigned(s))

isInt(s) == IntSyntax(s)

isIntMin(s, min) == IntSyntax(s) /\ IntValue(s) >= min

\* JavaScript truthiness of a body field.
Truthy(v) ==
  /\ v.t # "undefined"
  /\ (v.t = "str" => v.s # <<>>)
  /\ (v.t = "num" => ~(v.n = 0 /\ v.tenths = 0))

\* ------------------------------------------------------------------ inputs
Routes == {"GET /orders", "POST /orders", "PATCH /orders/:id", "PUT /orders/:id",
           "DELETE /orders/:id", "GET /student", "GET /foods"}

IdRoutes == {"PATCH /orders/:id", "PUT /orders/:id", "DELETE /orders/:id"}

BodyRoutes == {"POST /orders", "PATCH /orders/:id", "PUT /orders/:id"}

\* Path ids: an existing row, and a segment that is no integer.
PathIds == {<<"1">>, <<"x">>}

\* name fields: absent, blank, and one that needs trimming and escaping.
Names == {Absent, Str(<<" ">>), Str(<<" ", "<">>)}

\* quantity fields: absent, zero, a positive integer, a non-integer number.
Quantities == {Absent, Num(0, 0), Num(2, 0), Num(1, 5)}

Request(route, id, name, quantity) ==
  [route |-> route, id |-> id, name |-> name, quantity |-> quantity]

GoodBody == <<Str(<<" ", "<">>), Num(2, 0)>>

\* Every name with a quantity that is absent or valid, and the valid name
\* with every quantity.
Bodies == {<<n, q>> : n \in Names, q \in {Absent, GoodBody[2]}}
          \cup {<<GoodBody[1], q>> : q \in Quantities}

\* Every body goes to the existing id; the id that is no integer comes with
\* a body that breaks no rule.
Inputs ==
  {Request(rt, <<>>, Absent, Absent) : rt \in Routes \ (IdRoutes \cup BodyRoutes)}
  \cup {Request("POST /orders", <<>>, b[1], b[2]) : b \in Bodies}
  \cup {Request("DELETE /orders/:id", id, Absent, Absent) : id \in PathIds}
  \cup {Request(rt, <<"1">>, b[1], b[2]) :
          rt \in {"PATCH /orders/:id", "PUT /orders/:id"}, b \in Bodies}
  \cup {Request(rt, <<"x">>, GoodBody[1], GoodBody[2]) :
          rt \in {"PATCH /orders/:id", "PUT /orders/:id"}}

\* The requests of PoolSpec: a listing and a delete.
PoolInputs ==
  {Request("GET /orders", <<>>, Absent, Absent),
   Request("DELETE /orders/:id", <<"1">>, Absent, Absent)}

\* --------------------------------------------------------------- statements
\* A statement text: its verb, its table, the columns that are given a ?
\* (VALUES (?, ?) or SET c=?, ...) and whether it ends in WHERE id=?.
Sql(op, table, cols, where) == [op |-> op, table |-> table, cols |-> cols, where |-> where]

NoSql == Sql("none", "none", <<>>, FALSE)

Placeholders(sql) == Len(sql.cols) + (IF sql.where THEN 1 ELSE 0)

Call(sql, values) == [sql |-> sql, values |-> values]

NoCall == Call(NoSql, <<>>)

\* ------------------------------------------------------------------- state
VARIABLES
  reqs,     \* bag of the requests in flight or answered and not yet closed
  db,       \* table name -> set of rows [id, name, quantity]
  nextId,   \* AUTO_INCREMENT counter of orders
  inUse     \* connections of the pool that are handed out

vars == <<reqs, db, nextId, inUse>>

Row(id, name, quantity) == [id |-> id, name |-> name, quantity |-> quantity]

NoResult == [ok |-> TRUE, err |-> "", insertId |-> 0, affectedRows |-> 0, rows |-> {}]

NoReply == [kind |-> "none", id |-> 0, name |-> Absent, quantity |-> Absent,
            affectedRows |-> 0, rows |-> {}, errors |-> <<>>, error |-> ""]

\* A request as the server holds it: the request as received, req.body as
\* the sanitizers have left it, the validation errors, the call made to
\* queryDB, what queryDB gave to conn.query, what came back, and the response.
Received(req) ==
  [req |-> req, pc |-> "received",
   body |-> [name |-> req.name, quantity |-> req.quantity],
   errors |-> <<>>, call |-> NoCall, sent |-> NoCall, result |-> NoResult,
   status |-> 0, reply |-> NoReply]

InFlight == BagToSet(reqs)

Replace(old, new) == (reqs (-) SetToBag({old})) (+) SetToBag({new})

Init ==
  /\ reqs = EmptyBag
  /\ db = [t \in {"orders", "student", "foods"} |->
             IF t = "orders" THEN {Row(1, <<"a">>, 1), Row(2, <<"b">>, 3)}
             ELSE {Row(1, <<"s">>, 0)}]
  /\ nextId = 3
  /\ inUse = 0

\* --------------------------------------------------------------- validators
\* param('id').isInt()
IdErrors(req) == IF isInt(req.id) THEN <<>> ELSE <<"id">>

\* body('name').trim().isLength({ min: 1 }).escape()
NameRequiredErrors(body) ==
  IF isLength(trim(toString(body.name)), 1) THEN <<>> ELSE <<"name">>

NameRequiredSanitized(body) == Str(escape(trim(toString(body.name))))

\* body('name').optional().trim().escape(): an undefined field is skipped,
\* and no validator follows the sanitizers.
NameOptionalErrors(body) == <<>>

NameOptionalSanitized(body) ==
  IF body.name = Absent THEN Absent ELSE Str(escape(trim(toString(body.name))))

\* body('quantity').isInt({ min: 1 })
QuantityRequiredErrors(body) ==
  IF isIntMin(toString(body.quantity), 1) THEN <<>> ELSE <<"quantity">>

\* The optional quantity checked with { min: 0 }.
QuantityOptionalErrorsMinZero(body) ==
  IF body.quantity = Absent \/ isIntMin(toString(body.quantity), 0)
  THEN <<>> ELSE <<"quantity">>

\* body('quantity').optional().isInt({ min: 1 })
QuantityOptionalErrors(body) ==
  IF body.quantity = Absent \/ isIntMin(toString(body.quantity), 1)
  THEN <<>> ELSE <<"quantity">>

\* The validation chains of a route, run in the order they are declared:
\* the errors they collect and req.body as the sanitizers leave it.
ValidationErrors(req, body) ==
  CASE req.route = "POST /orders" ->
         NameRequiredErrors(body) \o QuantityRequiredErrors(body)
    [] req.route = "PATCH /orders/:id" ->
         IdErrors(req) \o NameOptionalErrors(body) \o QuantityOptionalErrors(body)
    [] req.route = "PUT /orders/:id" ->
         IdErrors(req) \o NameRequiredErrors(body) \o QuantityRequiredErrors(body)
    [] req.route = "DELETE /orders/:id" -> IdErrors(req)
    [] OTHER -> <<>>

SanitizedBody(req, body) ==
  CASE req.route \in {"POST /orders", "PUT /orders/:id"} ->
         [body EXCEPT !.name = NameRequiredSanitized(body)]
    [] req.route = "PATCH /orders/:id" ->
         [body EXCEPT !.name = NameOptionalSanitized(body)]
    [] OTHER -> body

\* ----------------------------------------------------------------- database
\* The value a column takes from a bound parameter.
SqlText(v) == toString(v)

SqlInt(v) == IF v.t = "num" THEN v.n ELSE IntValue(toString(v))

Failed(err) == [NoResult EXCEPT !.ok = FALSE, !.err = err]

Assign(row, cols, values) ==
  [row EXCEPT
     !.name = IF \E i \in 1..Len(cols) : cols[i] = "name"
              THEN SqlText(values[CHOOSE i \in 1..Len(cols) : cols[i] = "name"])
              ELSE @,
     !.quantity = IF \E i \in 1..Len(cols) : cols[i] = "quantity"
                  THEN SqlInt(values[CHOOSE i \in 1..Len(cols) : cols[i] = "quantity"])
                  ELSE @]

\* The server running a statement whose ? are all bound: the new tables,
\* the new counter and the result.
Run(sql, values, tables, counter) ==
  LET rows == tables["orders"]
      key == SqlInt(values[Len(values)])
      hit == {row \in rows : row.id = key}
  IN CASE sql.op = "SELECT" ->
            [tables |-> tables, counter |-> counter,
             result |-> [NoResult EXCEPT !.rows = tables[sql.table]]]
       [] sql.op = "INSERT" ->
            [tables |-> [tables EXCEPT !["orders"] =
                           rows \cup {Assign(Row(counter, <<>>, 0), sql.cols, values)}],
             counter |-> counter + 1,
             result |-> [NoResult EXCEPT !.insertId = counter, !.affectedRows = 1]]
       [] sql.op = "UPDATE" ->
            [tables |-> [tables EXCEPT !["orders"] =
                           (rows \ hit) \cup {Assign(row, sql.cols, values) : row \in hit}],
             counter |-> counter,
             result |-> [NoResult EXCEPT !.affectedRows = Cardinality(hit)]]
       [] sql.op = "DELETE" ->
            [tables |-> [tables EXCEPT !["orders"] = rows \ hit],
             counter |-> counter,
             result |-> [NoResult EXCEPT !.affectedRows = Cardinality(hit)]]

\* A text the server cannot parse: one sent with a ? left unbound, or an
\* UPDATE with nothing between SET and WHERE.
Unparsable(sql, values) ==
  \/ Placeholders(sql) # Len(values)
  \/ sql.op = "UPDATE" /\ sql.cols = <<>>

\* A server that reads a ? left unbound as NULL, as a prepared statement
\* run with missing parameters would.
ExecuteUnboundAsNull(sql, values, tables, counter) ==
  IF sql.op = "UPDATE" /\ sql.cols = <<>>
  THEN [tables |-> tables, counter |-> counter, result |-> Failed("ER_PARSE_ERROR")]
  ELSE Run(sql, values \o [i \in 1..(Placeholders(sql) - Len(values)) |-> Absent],
           tables, counter)

\* conn.query(sql): the server runs the text with the values the driver
\* bound to it.  An unparsable text is rejected with a syntax error and
\* changes nothing.
Execute(sql, values, tables, counter) ==
  IF Unparsable(sql, values)
  THEN [tables |-> tables, counter |-> counter, result |-> Failed("ER_PARSE_ERROR")]
  ELSE Run(sql, values, tables, counter)

\* ------------------------------------------------------------ query executor
\* queryDB(sql): what reaches conn.query.  The function declares one
\* parameter, so a second argument of a caller is dropped and the text is
\* sent with no values.
Sent(call) == Call(call.sql, <<>>)

\* A queryDB that never gives its connection back.
ReleaseLeaks(conn, n) == n

\* finally { if (conn) conn.release(); }
Release(conn, n) == IF conn THEN n - 1 ELSE n

\* ----------------------------------------------------------------- actions
\* A request arrives while fewer than cap are open.
Receive(req, cap) ==
  /\ BagCardinality(reqs) < cap
  /\ reqs' = reqs (+) SetToBag({Received(req)})
  /\ UNCHANGED <<db, nextId, inUse>>

\* The validation chains of the route run before its handler.
Validate(r) ==
  /\ r.pc = "received"
  /\ reqs' = Replace(r, [r EXCEPT !.pc = "validated",
                                  !.errors = ValidationErrors(r.req, r.body),
                                  !.body = SanitizedBody(r.req, r.body)])
  /\ UNCHANGED <<db, nextId, inUse>>

\* if (!errors.isEmpty()) return res.status(400).json({ errors: errors.array() })
Reject(r) ==
  [r EXCEPT !.pc = "responded", !.status = 400,
            !.reply = [NoReply EXCEPT !.kind = "errors", !.errors = r.errors]]

\* The handler calls queryDB, which asks the pool for a connection.
Query(r, sql, values) == [r EXCEPT !.pc = "acquiring", !.call = Call(sql, values)]

\* A SET clause built from the fields that are present, truthy or not.
PatchUpdatesPresent(body) ==
  (IF body.name # Absent THEN <<"name">> ELSE <<>>)
  \o (IF body.quantity # Absent THEN <<"quantity">> ELSE <<>>)

\* The statement and the values a PATCH hands to queryDB.
PatchUpdates(body) ==
  (IF Truthy(body.name) THEN <<"name">> ELSE <<>>)
  \o (IF Truthy(body.quantity) THEN <<"quantity">> ELSE <<>>)

PatchValues(body, id) ==
  (IF Truthy(body.name) THEN <<body.name>> ELSE <<>>)
  \o (IF Truthy(body.quantity) THEN <<body.quantity>> ELSE <<>>)
  \o <<Str(id)>>

\* The handler of a route, from the end of validation to its call of queryDB.
Handle(r) ==
  CASE r.req.route = "GET /orders" -> Query(r, Sql("SELECT", "orders", <<>>, FALSE), <<>>)
    [] r.req.route = "GET /student" -> Query(r, Sql("SELECT", "student", <<>>, FALSE), <<>>)
    [] r.req.route = "GET /foods" -> Query(r, Sql("SELECT", "foods", <<>>, FALSE), <<>>)
    [] r.req.route = "POST /orders" ->
         IF r.errors # <<>> THEN Reject(r)
         ELSE Query(r, Sql("INSERT", "orders", <<"name", "quantity">>, FALSE),
                    <<r.body.name, r.body.quantity>>)
    [] r.req.route = "PATCH /orders/:id" ->
         IF r.errors # <<>> THEN Reject(r)
         ELSE Query(r, Sql("UPDATE", "orders", PatchUpdates(r.body), TRUE),
                    PatchValues(r.body, r.req.id))
    [] r.req.route = "PUT /orders/:id" ->
         IF r.errors # <<>> THEN Reject(r)
         ELSE Query(r, Sql("UPDATE", "orders", <<"name", "quantity">>, TRUE),
                    <<r.body.name, r.body.quantity, Str(r.req.id)>>)
    [] r.req.route = "DELETE /orders/:id" ->
         IF r.errors # <<>> THEN Reject(r)
         ELSE Query(r, Sql("DELETE", "orders", <<>>, TRUE), <<Str(r.req.id)>>)

GetOrders(r) ==
  /\ r.pc = "validated" /\ r.req.route = "GET /orders"
  /\ reqs' = Replace(r, Handle(r))
  /\ UNCHANGED <<db, nextId, inUse>>

PostOrders(r) ==
  /\ r.pc = "validated" /\ r.req.route = "POST /orders"
  /\ reqs' = Replace(r, Handle(r))
  /\ UNCHANGED <<db, nextId, inUse>>

PatchOrder(r) ==
  /\ r.pc = "validated" /\ r.req.route = "PATCH /orders/:id"
  /\ reqs' = Replace(r, Handle(r))
  /\ UNCHANGED <<db, nextId, inUse>>

PutOrder(r) ==
  /\ r.pc = "validated" /\ r.req.route = "PUT /orders/:id"
  /\ reqs' = Replace(r, Handle(r))
  /\ UNCHANGED <<db, nextId, inUse>>

DeleteOrder(r) ==
  /\ r.pc = "validated" /\ r.req.route = "DELETE /orders/:id"
  /\ reqs' = Replace(r, Handle(r))
  /\ UNCHANGED <<db, nextId, inUse>>

GetStudent(r) ==
  /\ r.pc = "validated" /\ r.req.route = "GET /student"
  /\ reqs' = Replace(r, Handle(r))
  /\ UNCHANGED <<db, nextId, inUse>>

GetFoods(r) ==
  /\ r.pc = "validated" /\ r.req.route = "GET /foods"
  /\ reqs' = Replace(r, Handle(r))
  /\ UNCHANGED <<db, nextId, inUse>>

\* A handler whose catch answers 200 with an empty list.
ReplySwallowsError(r, result) ==
  [r EXCEPT !.pc = "responded", !.result = result, !.status = 200,
            !.reply = [NoReply EXCEPT !.kind = "rows"]]

\* The response of a handler once queryDB has returned or thrown.
Reply(r, result) ==
  IF ~result.ok
  THEN [r EXCEPT !.pc = "responded", !.result = result, !.status = 500,
                 !.reply = [NoReply EXCEPT !.kind = "error", !.error = result.err]]
  ELSE CASE r.req.route \in {"GET /orders", "GET /student", "GET /foods"} ->
              [r EXCEPT !.pc = "responded", !.status = 200,
                        !.reply = [NoReply EXCEPT !.kind = "rows", !.rows = result.rows]]
         [] r.req.route = "POST /orders" ->
              [r EXCEPT !.pc = "responded", !.status = 201,
                        !.reply = [NoReply EXCEPT !.kind = "order",
                                                  !.id = result.insertId,
                                                  !.name = r.body.name,
                                                  !.quantity = r.body.quantity]]
         [] OTHER ->
              [r EXCEPT !.pc = "responded", !.status = 200,
                        !.reply = [NoReply EXCEPT !.kind = "msg",
                                                  !.affectedRows = result.affectedRows]]

\* conn = await pool.getConnection() is granted; conn.query(sql) is sent.
GetConnection(r) ==
  /\ r.pc = "acquiring"
  /\ inUse < connectionLimit
  /\ inUse' = inUse + 1
  /\ reqs' = Replace(r, [r EXCEPT !.pc = "querying", !.sent = Sent(r.call)])
  /\ UNCHANGED <<db, nextId>>

\* pool.getConnection() rejects (no connection in time, server unreachable):
\* conn stays undefined, queryDB throws and the handler answers 500.
GetConnectionFails(r) ==
  /\ r.pc = "acquiring"
  /\ inUse' = Release(FALSE, inUse)
  /\ reqs' = Replace(r, Reply(r, Failed("ER_GET_CONNECTION_TIMEOUT")))
  /\ UNCHANGED <<db, nextId>>

\* The server runs the statement; its answer is on the way back.
ServerRuns(r) ==
  /\ r.pc = "querying"
  /\ LET done == Execute(r.sent.sql, r.sent.values, db, nextId)
     IN /\ db' = done.tables
        /\ nextId' = done.counter
        /\ reqs' = Replace(r, [r EXCEPT !.pc = "executed", !.result = done.result])
  /\ UNCHANGED inUse

\* The connection breaks, before or after the server has run the statement:
\* conn.query rejects, queryDB releases and throws, the handler answers 500.
QueryFails(r) ==
  /\ r.pc \in {"querying", "executed"}
  /\ inUse' = Release(TRUE, inUse)
  /\ reqs' = Replace(r, Reply(r, Failed("ECONNRESET")))
  /\ UNCHANGED <<db, nextId>>

\* The server's answer arrives: queryDB releases and returns the rows or
\* throws the server's error, and the handler answers.
Respond(r) ==
  /\ r.pc = "executed"
  /\ inUse' = Release(TRUE, inUse)
  /\ reqs' = Replace(r, Reply(r, r.result))
  /\ UNCHANGED <<db, nextId>>

\* The answered request is closed and leaves the server.
Close(r) ==
  /\ r.pc = "responded"
  /\ reqs' = reqs (-) SetToBag({r})
  /\ UNCHANGED <<db, nextId, inUse>>

\* Any step of the request r.
Step(r) ==
  \/ Validate(r)
  \/ GetOrders(r)
  \/ PostOrders(r)
  \/ PatchOrder(r)
  \/ PutOrder(r)
  \/ DeleteOrder(r)
  \/ GetStudent(r)
  \/ GetFoods(r)
  \/ GetConnection(r)
  \/ GetConnectionFails(r)
  \/ ServerRuns(r)
  \/ QueryFails(r)
  \/ Respond(r)
  \/ Close(r)

Next ==
  \/ \E req \in Inputs : Receive(req, MaxInFlight)
  \/ \E r \in InFlight : Validate(r)
  \/ \E r \in InFlight : GetOrders(r)
  \/ \E r \in InFlight : PostOrders(r)
  \/ \E r \in InFlight : PatchOrder(r)
  \/ \E r \in InFlight : PutOrder(r)
  \/ \E r \in InFlight : DeleteOrder(r)
  \/ \E r \in InFlight : GetStudent(r)
  \/ \E r \in InFlight : GetFoods(r)
  \/ \E r \in InFlight : GetConnection(r)
  \/ \E r \in InFlight : GetConnectionFails(r)
  \/ \E r \in InFlight : ServerRuns(r)
  \/ \E r \in InFlight : QueryFails(r)
  \/ \E r \in InFlight : Respond(r)
  \/ \E r \in InFlight : Close(r)

Spec == Init /\ [][Next]_vars

\* The same server under more clients than the pool has connections, with
\* the requests of PoolInputs.
PoolNext ==
  \/ \E req \in PoolInputs : Receive(req, PoolClients)
  \/ \E r \in InFlight : Validate(r)
  \/ \E r \in InFlight : GetOrders(r)
  \/ \E r \in InFlight : DeleteOrder(r)
  \/ \E r \in InFlight : GetConnection(r)
  \/ \E r \in InFlight : GetConnectionFails(r)
  \/ \E r \in InFlight : ServerRuns(r)
  \/ \E r \in InFlight : QueryFails(r)
  \/ \E r \in InFlight : Respond(r)
  \/ \E r \in InFlight : Close(r)

PoolSpec == Init /\ [][PoolNext]_vars

\* The server with every pending step eventually taken: the event loop runs
\* each continuation that is ready, the pool grants a connection or times
\* out, and the server answers a statement or the connection breaks.
OpenPcs == {"received", "validated", "acquiring", "querying", "executed"}

Progress(route, pc) == \E r \in InFlight : r.req.route = route /\ r.pc = pc /\ Step(r)

Fairness == \A route \in Routes : \A pc \in OpenPcs : WF_vars(Progress(route, pc))

LiveNext ==
  \/ \E req \in Inputs : Receive(req, LiveClients)
  \/ \E r \in InFlight : Validate(r)
  \/ \E r \in InFlight : GetOrders(r)
  \/ \E r \in InFlight : PostOrders(r)
  \/ \E r \in InFlight : PatchOrder(r)
  \/ \E r \in InFlight : PutOrder(r)
  \/ \E r \in InFlight : DeleteOrder(r)
  \/ \E r \in InFlight : GetStudent(r)
  \/ \E r \in InFlight : GetFoods(r)
  \/ \E r \in InFlight : GetConnection(r)
  \/ \E r \in InFlight : GetConnectionFails(r)
  \/ \E r \in InFlight : ServerRuns(r)
  \/ \E r \in InFlight : QueryFails(r)
  \/ \E r \in InFlight : Respond(r)
  \/ \E r \in InFlight : Close(r)

LiveSpec == Init /\ [][LiveNext]_vars /\ Fairness

\* ------------------------------------------------------- reading a behaviour
\* In a step, the request that moved and what it became.
Moved(r) == CopiesIn(r, reqs') < CopiesIn(r, reqs)

Arrived == {n \in BagToSet(reqs') : CopiesIn(n, reqs') > CopiesIn(n, reqs)}

Answered(r) == r.pc = "responded"

\* The database was reachable for the request: neither the pool nor the
\* connection failed it.
DatabaseAvailable(r) == r.result.err \notin {"ER_GET_CONNECTION_TIMEOUT", "ECONNRESET"}

Orders == db["orders"]

\* A quantity that is an integer >= 1, a name of length >= 1 once trimmed,
\* a path id that is an integer: the rules as the specification words them.
IntegerAtLeastOne(q) == q.t = "num" /\ q.tenths = 0 /\ q.n >= 1

NonEmptyOnceTrimmed(n) ==
  /\ n.t = "str"
  /\ \E i \in 1..Len(n.s) : n.s[i] \notin Whitespace

IntegerId(id) == id # <<>> /\ \A i \in 1..Len(id) : id[i] \in DigitChars

ExistingId(id) == IntegerId(id) /\ \E row \in Orders : row.id = StrToNat(id)

ValidBody(req) == NonEmptyOnceTrimmed(req.name) /\ IntegerAtLeastOne(req.quantity)

\* ------------------------------------------------------------------- claims
\* C1: a POST with a valid body, the database being available, is answered
\* 201 with {id, name, quantity}, and the orders then hold a row with that
\* id, name and quantity.
C1_ValidPostCreated ==
  \A r \in InFlight :
    (Answered(r) /\ r.req.route = "POST /orders" /\ ValidBody(r.req)
       /\ DatabaseAvailable(r))
    => /\ r.status = 201
       /\ r.reply.kind = "order"
       /\ \E row \in Orders : /\ row.id = r.reply.id
                              /\ row.name = SqlText(r.reply.name)
                              /\ row.quantity = SqlInt(r.reply.quantity)

\* The requests C2 names: a POST or PUT body with no name, or with a
\* quantity that is <= 0 or no integer; a PATCH with a quantity that is no
\* integer or < 1; a path id that is no integer.
BadQuantity(q) == q # Absent /\ ~IntegerAtLeastOne(q)

FailsARule(req) ==
  \/ req.route \in {"POST /orders", "PUT /orders/:id"}
       /\ (req.name = Absent \/ BadQuantity(req.quantity))
  \/ req.route = "PATCH /orders/:id" /\ BadQuantity(req.quantity)
  \/ req.route \in IdRoutes /\ ~IntegerId(req.id)

\* C2: a request that fails a validation rule is answered 400 with
\* {errors: [...]}; no step of it calls the query executor, takes a
\* connection or changes a table.
C2_InvalidRejected ==
  [][\A r \in InFlight :
       (FailsARule(r.req) /\ Moved(r))
       => /\ UNCHANGED <<db, nextId, inUse>>
          /\ \A n \in Arrived :
               /\ n.pc \in {"validated", "responded"}
               /\ n.call = NoCall /\ n.sent = NoCall
               /\ n.pc = "responded" =>
                    (n.status = 400 /\ n.reply.kind = "errors" /\ n.reply.errors # <<>>)]_vars

C2_Witness ==
  \E r \in InFlight :
    /\ Answered(r) /\ FailsARule(r.req) /\ r.status = 400
    /\ r.req.route = "PATCH /orders/:id"

\* C3: a PUT with a valid body on the id of an existing row is answered 200
\* with affectedRows = 1; when the server runs its statement the row takes
\* the submitted name and quantity and every other row stays as it was.
PutApplied(r, rows) ==
  {IF row.id = StrToNat(r.req.id)
   THEN Row(row.id, SqlText(r.body.name), SqlInt(r.body.quantity))
   ELSE row : row \in rows}

C3_PutReplaces ==
  [][\A r \in InFlight :
       (r.req.route = "PUT /orders/:id" /\ ValidBody(r.req) /\ ExistingId(r.req.id)
          /\ Moved(r))
       => \A n \in Arrived :
            /\ (r.pc = "querying" /\ n.pc = "executed") =>
                 (n.result.ok /\ n.result.affectedRows = 1
                    /\ db'["orders"] = PutApplied(r, Orders))
            /\ (n.pc = "responded" /\ DatabaseAvailable(n)) =>
                 (n.status = 200 /\ n.reply.affectedRows = 1)]_vars

\* C4: a PATCH whose name is present and empty once trimmed fails validation:
\* it is answered 400 and never reaches the query executor.
C4_BlankPatchNameRejected ==
  \A r \in InFlight :
    (r.req.route = "PATCH /orders/:id" /\ r.req.name # Absent
       /\ ~NonEmptyOnceTrimmed(r.req.name))
    => /\ r.call = NoCall
       /\ Answered(r) => r.status = 400

Phase(pc) ==
  CASE pc = "received" -> 1
    [] pc = "validated" -> 2
    [] pc \in {"acquiring", "querying", "executed"} -> 3
    [] pc = "responded" -> 4

Answers500(n) ==
  /\ ~n.result.ok
  /\ n.status = 500 /\ n.reply.kind = "error" /\ n.reply.error = n.result.err

InOrder(r, n) ==
  /\ n.req = r.req
  /\ CASE r.pc = "received" -> n.pc = "validated"
       [] r.pc = "validated" ->
            \/ n.pc = "acquiring" /\ n.errors = <<>>
            \/ n.pc = "responded" /\ n.errors # <<>> /\ n.status = 400
       [] r.pc = "acquiring" -> n.pc = "querying" \/ (n.pc = "responded" /\ Answers500(n))
       [] r.pc = "querying" -> n.pc = "executed" \/ (n.pc = "responded" /\ Answers500(n))
       [] r.pc = "executed" ->
            /\ n.pc = "responded"
            /\ IF r.result.ok /\ n.result.ok THEN n.status \in {200, 201} ELSE Answers500(n)
       [] OTHER -> FALSE

C6_Lifecycle ==
  /\ \A r \in InFlight : Moved(r) =>
       IF Arrived = {} THEN Answered(r) ELSE \A n \in Arrived : InOrder(r, n)
  /\ (\A r \in InFlight : ~Moved(r)) => \A n \in Arrived : n.pc = "received"

C6_NoneStuck == \A r \in InFlight : ENABLED Step(r)

Pending(route) == \E r \in InFlight : r.req.route = route /\ ~Answered(r)

Served(route) == \E r \in InFlight : r.req.route = route /\ Answered(r)

C6_RequestLifecycle ==
  /\ []C6_NoneStuck
  /\ [][C6_Lifecycle]_vars
  /\ \A route \in Routes : Pending(route) ~> Served(route)

\* A request answered 500 with the message of the failure.
C6_Witness ==
  \E r \in InFlight :
    /\ Answered(r) /\ r.status = 500 /\ r.req.route = "GET /foods"
    /\ r.reply.error = "ER_GET_CONNECTION_TIMEOUT"

\* C7: two concurrent PATCH requests on one existing id, one supplying only
\* a name and the other only a quantity, both run by the server: once both
\* are answered the row holds the value of at least one of the two writers.
C7_PatchRaceKeepsAWriter ==
  \A r1, r2 \in InFlight :
    (/\ r1.req.route = "PATCH /orders/:id" /\ r2.req.route = "PATCH /orders/:id"
     /\ r1.req.id = r2.req.id /\ ExistingId(r1.req.id)
     /\ NonEmptyOnceTrimmed(r1.req.name) /\ r1.req.quantity = Absent
     /\ r2.req.name = Absent /\ IntegerAtLeastOne(r2.req.quantity)
     /\ Answered(r1) /\ Answered(r2)
     /\ DatabaseAvailable(r1) /\ DatabaseAvailable(r2))
    => \E row \in Orders :
         /\ row.id = StrToNat(r1.req.id)
         /\ \/ row.name = SqlText(r1.body.name)
            \/ row.quantity = SqlInt(r2.body.quantity)

\* C8: the statement that runs on the connection is the one the handler
\* handed to the executor, with the handler's values bound in order.
C8_ValuesBound ==
  \A r \in InFlight :
    r.pc \in {"querying", "executed"} =>
      (r.sent.sql = r.call.sql /\ r.sent.values = r.call.values)

\* C9: the connections handed out are exactly those of the requests whose
\* statement is on a connection, never more than the limit, and none once no
\* request holds one.
Holding == {r \in InFlight : r.pc \in {"querying", "executed"}}

Held == BagCardinality([r \in Holding |-> reqs[r]])

C9_ConnectionsReleased == inUse = Held /\ inUse >= 0 /\ inUse <= connectionLimit

\* The pool is exhausted with a request waiting for a connection.
C9_Witness ==
  /\ inUse = connectionLimit
  /\ \E r \in InFlight : r.pc = "acquiring"

\* C10: a PATCH that passes validation hands the executor an UPDATE whose
\* SET clause names, name before quantity, the fields that are present and
\* truthy in the validated body, with their values in that order and then
\* the id; with no such field the SET clause is empty and the statement is
\* handed over all the same.
Qualifies(v) == v # Absent /\ toString(v) \notin {<<>>, <<"0">>}

SetFields(body) == SelectSeq(<<"name", "quantity">>, LAMBDA f : Qualifies(body[f]))

C10_PatchStatement ==
  \A r \in InFlight :
    (r.req.route = "PATCH /orders/:id" /\ r.errors = <<>>
       /\ r.pc \notin {"received", "validated"})
    => /\ r.call.sql = Sql("UPDATE", "orders", SetFields(r.body), TRUE)
       /\ r.call.values =
            [i \in 1..Len(SetFields(r.body)) |-> r.body[SetFields(r.body)[i]]]
            \o <<Str(r.req.id)>>

C10_Witness ==
  /\ \E r \in InFlight :
       /\ r.req.route = "PATCH /orders/:id" /\ r.pc = "acquiring"
       /\ r.req.name # Absent /\ r.call.sql.cols = <<>>
  /\ \E r \in InFlight :
       /\ r.req.route = "PATCH /orders/:id" /\ r.pc = "acquiring"
       /\ r.call.sql.cols = <<"name", "quantity">>

====
